---- MODULE Spec2Model ----
(***************************************************************************)
(* Model of the tag-and-build executor                                     *)
(* (build-tools/src/executors/tag-and-build/tag-and-build.ts).             *)
(*                                                                         *)
(* One invocation of tagAndBuild is a sequential program; every await and  *)
(* every early return is a position of pc.  Strings are sequences of       *)
(* one-character strings, so that split, trim, substring, the template     *)
(* literals and the regular expression are computed, not assumed.          *)
(***************************************************************************)
EXTENDS Integers, Sequences, FiniteSets, TLC

(***************************************************************************)
(* Bounds of the model.                                                    *)
(***************************************************************************)
MaxTags == 2
MaxResults == 2
MaxAdditional == 2

(***************************************************************************)
(* JavaScript values.                                                      *)
(***************************************************************************)
\* null / undefined for a string-valued variable (never a character string)
Null == <<"#null">>

\* JS truthiness of a string | null | undefined value
Truthy(s) == s # Null /\ s # <<>>

\* undefined for an array-of-strings option (never an array of strings)
NoList == <<Null>>

\* `${x}` of an undefined value inside a template literal
Undefined == <<"u", "n", "d", "e", "f", "i", "n", "e", "d">>

ShaLen == 7

RECURSIVE Concat(_)
\* concatenation of a sequence of strings (a template literal)
Concat(parts) ==
  IF parts = <<>> THEN <<>> ELSE Head(parts) \o Concat(Tail(parts))

RECURSIVE Split(_, _)
\* String.prototype.split(sep) for a one-character separator: the segments
\* between separators, empty segments kept, at least one segment
Split(s, sep) ==
  IF \A i \in 1..Len(s) : s[i] # sep
    THEN <<s>>
    ELSE LET i == CHOOSE k \in 1..Len(s) :
                     s[k] = sep /\ \A j \in 1..(k - 1) : s[j] # sep
         IN <<SubSeq(s, 1, i - 1)>> \o Split(SubSeq(s, i + 1, Len(s)), sep)

\* white space and line terminators removed by String.prototype.trim
IsSpace(c) == c \in {" ", "\n", "\t", "\r"}

RECURSIVE TrimStart(_)
TrimStart(s) ==
  IF s # <<>> /\ IsSpace(Head(s)) THEN TrimStart(Tail(s)) ELSE s

RECURSIVE TrimEnd(_)
TrimEnd(s) ==
  IF s # <<>> /\ IsSpace(s[Len(s)]) THEN TrimEnd(SubSeq(s, 1, Len(s) - 1)) ELSE s

\* String.prototype.trim
Trim(s) == TrimEnd(TrimStart(s))

\* String.prototype.substring(0, n)
Substring0(s, n) == SubSeq(s, 1, IF Len(s) < n THEN Len(s) ELSE n)

\* Array.prototype.filter(Boolean) on an array of strings
FilterBoolean(arr) == SelectSeq(arr, LAMBDA t : t # <<>>)

RECURSIVE JoinWith(_, _)
\* Array.prototype.join(sep) of an array of strings
JoinWith(segs, sep) ==
  IF segs = <<>> THEN <<>>
  ELSE IF Len(segs) = 1 THEN Head(segs)
  ELSE Head(segs) \o <<sep>> \o JoinWith(Tail(segs), sep)

\* path.join(a, b) on POSIX: a + '/' + b normalized, that is empty and '.'
\* segments dropped and a leading '/' kept ('..' does not occur here)
PathJoin(a, b) ==
  LET joined == a \o <<"/">> \o b
      segs == SelectSeq(Split(joined, "/"), LAMBDA g : g # <<>> /\ g # <<".">>)
  IN (IF Head(joined) = "/" THEN <<"/">> ELSE <<>>) \o JoinWith(segs, "/")

(***************************************************************************)
(* Version parsing (lines 47-49 and 87-89).                                *)
(***************************************************************************)
\* const [major, minor] = appVersion.split('.') : a missing element is undefined
MajorOf(v) == Split(v, ".")[1]

MinorOf(v) == IF Len(Split(v, ".")) >= 2 THEN Split(v, ".")[2] ELSE Null

\* majorMinorVersion = `${major}.${minor}`
MajorMinorOf(v) ==
  Concat(<<MajorOf(v), <<".">>,
           IF MinorOf(v) = Null THEN Undefined ELSE MinorOf(v)>>)

(***************************************************************************)
(* Revision tags (lines 69-84).                                            *)
(***************************************************************************)
\* stdout of `git tag --points-at HEAD`: one tag per line
RECURSIVE GitTagStdout(_)
GitTagStdout(ts) ==
  IF ts = <<>> THEN <<>> ELSE Head(ts) \o <<"\n">> \o GitTagStdout(Tail(ts))

\* gitTagsOutput.trim().split('\n').filter(Boolean)
ParseTags(out) == FilterBoolean(Split(Trim(out), "\n"))

\* tagPrefix || 'v'
EffectiveTagPrefix(tagPrefix) == IF Truthy(tagPrefix) THEN tagPrefix ELSE <<"v">>

\* the source text `${appName}/${effectiveTagPrefix}` between ^ and (.*)$ of
\* the RegExp: appName and the prefix are interpolated unescaped
PatternHead(appName, tagPrefix) ==
  Concat(<<appName, <<"/">>, EffectiveTagPrefix(tagPrefix)>>)

\* one pattern character against one subject character: '.' is the regular
\* expression wildcard (any character but a line terminator), every other
\* character of the alphabet used here stands for itself
CharMatches(p, c) == IF p = "." THEN c \notin {"\n", "\r"} ELSE p = c

\* targetTagPattern.test(tag)
PatternTest(appName, tagPrefix, tag) ==
  LET pat == PatternHead(appName, tagPrefix)
  IN /\ Len(tag) >= Len(pat)
     /\ \A i \in 1..Len(pat) : CharMatches(pat[i], tag[i])
     /\ \A i \in (Len(pat) + 1)..Len(tag) : tag[i] \notin {"\n", "\r"}

\* tag.match(targetTagPattern)[1] : the text captured by (.*)
PatternCapture(appName, tagPrefix, tag) ==
  SubSeq(tag, Len(PatternHead(appName, tagPrefix)) + 1, Len(tag))

\* FindRelevantTag taking the last matching tag instead of the first
FindRelevantTagLast(appName, tagPrefix, tags) ==
  IF \E i \in 1..Len(tags) : PatternTest(appName, tagPrefix, tags[i])
    THEN tags[CHOOSE i \in 1..Len(tags) :
                /\ PatternTest(appName, tagPrefix, tags[i])
                /\ \A j \in (i + 1)..Len(tags) :
                      ~PatternTest(appName, tagPrefix, tags[j])]
    ELSE Null

\* tags.find(tag => targetTagPattern.test(tag)) : first match or undefined
FindRelevantTag(appName, tagPrefix, tags) ==
  IF \E i \in 1..Len(tags) : PatternTest(appName, tagPrefix, tags[i])
    THEN tags[CHOOSE i \in 1..Len(tags) :
                /\ PatternTest(appName, tagPrefix, tags[i])
                /\ \A j \in 1..(i - 1) : ~PatternTest(appName, tagPrefix, tags[j])]
    ELSE Null

\* match && match[1] ? match[1] : null
VersionFromTag(appName, tagPrefix, relevantTag) ==
  IF Truthy(PatternCapture(appName, tagPrefix, relevantTag))
    THEN PatternCapture(appName, tagPrefix, relevantTag)
    ELSE Null

(***************************************************************************)
(* Docker tags (lines 145-168).                                            *)
(***************************************************************************)
\* baseImageName = `${dockerRepository}/${appName}`
BaseImageName(repo, appName) == Concat(<<repo, <<"/">>, appName>>)

\* `${baseImageName}:${label}`
ImageTag(repo, appName, label) ==
  Concat(<<BaseImageName(repo, appName), <<":">>, label>>)

\* MajorMinorTags without the comparisons that avoid repeated labels
MajorMinorTagsUnguarded(repo, appName, version, majorMinor, major, generate) ==
  IF generate = "true"
    THEN (IF Truthy(majorMinor)
            THEN <<ImageTag(repo, appName, majorMinor)>> ELSE <<>>)
         \o
         (IF Truthy(major)
            THEN <<ImageTag(repo, appName, major)>> ELSE <<>>)
    ELSE <<>>

\* MajorMinorTags without the test of generateMajorMinor
MajorMinorTagsAlways(repo, appName, version, majorMinor, major, generate) ==
  (IF Truthy(majorMinor) /\ majorMinor # version
     THEN <<ImageTag(repo, appName, majorMinor)>> ELSE <<>>)
  \o
  (IF Truthy(major) /\ major # version /\ major # majorMinor
     THEN <<ImageTag(repo, appName, major)>> ELSE <<>>)

\* the pushes guarded by generateMajorMinor (lines 149-160)
MajorMinorTags(repo, appName, version, majorMinor, major, generate) ==
  IF generate = "true"
    THEN (IF Truthy(majorMinor) /\ majorMinor # version
            THEN <<ImageTag(repo, appName, majorMinor)>> ELSE <<>>)
         \o
         (IF Truthy(major) /\ major # version /\ major # majorMinor
            THEN <<ImageTag(repo, appName, major)>> ELSE <<>>)
    ELSE <<>>

\* additionalTags.forEach(tag => dockerTags.push(...)) (lines 162-164)
AdditionalImageTags(repo, appName, additional) ==
  IF additional = NoList \/ Len(additional) = 0
    THEN <<>>
    ELSE [i \in 1..Len(additional) |-> ImageTag(repo, appName, additional[i])]

\* TagsBeforeSha skipping an additional tag that is already in the list
TagsBeforeShaDeduped(repo, appName, version, majorMinor, major, generate, additional) ==
  LET derived == <<ImageTag(repo, appName, version)>>
                   \o MajorMinorTags(repo, appName, version, majorMinor, major,
                                     generate)
  IN derived
       \o SelectSeq(AdditionalImageTags(repo, appName, additional),
                    LAMBDA t : \A i \in 1..Len(derived) : derived[i] # t)

\* dockerTags as it stands when `git rev-parse HEAD` is awaited (line 166)
TagsBeforeSha(repo, appName, version, majorMinor, major, generate, additional) ==
  <<ImageTag(repo, appName, version)>>
    \o MajorMinorTags(repo, appName, version, majorMinor, major, generate)
    \o AdditionalImageTags(repo, appName, additional)

\* ShortSha without the substring(0, 7)
ShortShaWhole(out) == Trim(out)

\* gitSha = gitShaOutput.trim().substring(0, 7)
ShortSha(out) == Substring0(Trim(out), ShaLen)

\* `${baseImageName}:sha-${gitSha}`
ShaTag(repo, appName, sha) ==
  ImageTag(repo, appName, <<"s", "h", "a", "-">> \o sha)

\* finalDockerfile (lines 181-183)
FinalDockerfile(root, dockerfile) ==
  IF Truthy(dockerfile)
    THEN PathJoin(root, dockerfile)
    ELSE PathJoin(root, <<"D", "o", "c", "k", "e", "r", "f", "i", "l", "e">>)

\* finalContext (line 184)
FinalContext(root, dockerContext) ==
  IF Truthy(dockerContext) THEN PathJoin(root, dockerContext) ELSE root

\* ComposeDockerCommand with --push whatever the option says
ComposeDockerCommandAlwaysPush(push, tags, file, ctx, version, sha) ==
  [kind |-> "composed",
   push |-> TRUE,
   tags |-> tags,
   file |-> file,
   context |-> ctx,
   appVersionArg |-> version,
   buildShaArg |-> sha]

\* dockerCommand (lines 172-188), as the directives the command line carries:
\* --push if requested, one -t per tag in order, -f, the context and the two
\* build arguments
ComposeDockerCommand(push, tags, file, ctx, version, sha) ==
  [kind |-> "composed",
   push |-> push,
   tags |-> tags,
   file |-> file,
   context |-> ctx,
   appVersionArg |-> version,
   buildShaArg |-> sha]

(***************************************************************************)
(* Inputs: the options of one invocation and what the collaborators may    *)
(* answer.                                                                 *)
(***************************************************************************)
\* a project of context.projectsConfigurations.projects; its name holds a '.'
AppKnown == <<"a", ".", "b">>

\* a name that is not a key of the project registry
AppUnknown == <<"z">>

Projects == {AppKnown}

\* context.root, the workspace root
WorkspaceRoot == <<"/", "w">>

\* projectConfig.root of a project, relative to the workspace root
ProjectRoot(appName) == <<"p">>

CustomDockerfile == <<"d", "/", "F">>

CustomContext == <<"c">>

Repository == <<"r", "e", "g">>

CustomPrefix == <<"r">>

V5 == <<"5">>

V12 == <<"1", ".", "2">>

V123 == <<"1", ".", "2", ".", "3">>

VDot5 == <<".", "5">>

ManifestVersions == {V5, V12, V123, VDot5}

\* what readJsonFile(packageJsonPath) does: throws, or returns a manifest
\* whose version is undefined, empty or a version string
ManifestOutcomes ==
  {[kind |-> "throws", version |-> Null], [kind |-> "read", version |-> Null],
   [kind |-> "read", version |-> <<>>]}
    \cup {[kind |-> "read", version |-> v] : v \in ManifestVersions}

\* tags that may point at HEAD
TagFull == <<"a", ".", "b", "/", "v", "1", ".", "2", ".", "3">>

TagSingle == <<"a", ".", "b", "/", "v", "5">>

TagEmptyRest == <<"a", ".", "b", "/", "v">>

\* the tag of another project, "a-b", of the same repository
TagOtherProject == <<"a", "-", "b", "/", "v", "9">>

TagCustom == <<"a", ".", "b", "/", "r", "2", ".", "0">>

HeadTags == {TagFull, TagSingle, TagEmptyRest, TagOtherProject, TagCustom}

RECURSIVE SeqsUpTo(_, _)
\* the sequences over S of length at most n
SeqsUpTo(S, n) ==
  IF n = 0 THEN {<<>>}
  ELSE LET shorter == SeqsUpTo(S, n - 1)
       IN shorter \cup {Append(q, x) : q \in shorter, x \in S}

\* a listing names every tag once, in the order of the configured tag.sort
TagListings ==
  {l \in SeqsUpTo(HeadTags, MaxTags) :
     \A i, j \in 1..Len(l) : l[i] = l[j] => i = j}

Latest == <<"l", "a", "t", "e", "s", "t">>

AdditionalLabels == {Latest, V12}

AdditionalChoices == {NoList} \cup SeqsUpTo(AdditionalLabels, MaxAdditional)

\* stdout of `git rev-parse HEAD`: the identifier and a line feed
RevisionOutputs ==
  {<<"a", "b", "c", "1", "2", "3", "4", "d", "e", "\n">>,
   <<"0", "f", "0", "f", "0", "f", "0", "a", "a", "\n">>}

\* the options; the two path options are given together or both left out
OptionSets ==
  {o \in [appName : {AppKnown, AppUnknown},
          dockerRepository : {Repository},
          push : BOOLEAN,
          dockerfile : {Null, CustomDockerfile},
          context : {Null, CustomContext},
          additionalTags : AdditionalChoices,
          tagPrefix : {Null, CustomPrefix},
          generateMajorMinor : {"true", "false", "undefined"}] :
     (o.dockerfile = Null) <=> (o.context = Null)}

(***************************************************************************)
(* State.                                                                  *)
(***************************************************************************)
VARIABLES
  options,            \* the executor options (line 17-27)
  pc,                 \* position of the invocation
  appVersion,         \* line 36
  majorMinorVersion,  \* line 37
  majorVersion,       \* line 38
  dockerTags,         \* line 145
  gitSha,             \* line 167
  dockerCommand,      \* line 172, as the directives it carries
  result,             \* what the returned promise settles to
  calls,              \* the collaborators invoked so far, in order
  manifest,           \* what readJsonFile answered
  tagListing,         \* what `git tag --points-at HEAD` answered
  buildResults,       \* the results the build target has reported so far
  buildFinished,      \* the iterator of the build results is exhausted
  revision            \* what `git rev-parse HEAD` answered

vars ==
  <<options, pc, appVersion, majorMinorVersion, majorVersion, dockerTags,
    gitSha, dockerCommand, result, calls, manifest, tagListing, buildResults,
    buildFinished, revision>>

NotAsked == [kind |-> "none"]

Init ==
  /\ options \in OptionSets
  /\ pc = "start"
  /\ appVersion = Null
  /\ majorMinorVersion = Null
  /\ majorVersion = Null
  /\ dockerTags = <<>>
  /\ gitSha = Null
  /\ dockerCommand = NotAsked
  /\ result = "pending"
  /\ calls = <<>>
  /\ manifest = NotAsked
  /\ tagListing = NotAsked
  /\ buildResults = <<>>
  /\ buildFinished = FALSE
  /\ revision = NotAsked

\* return { success: b }
Return(b) ==
  /\ pc' = "done"
  /\ result' = IF b THEN "success" ELSE "failure"

\* control passes to position p; "returnFalse" is `return { success: false }`
Goto(p) ==
  IF p = "returnFalse" THEN Return(FALSE) ELSE pc' = p /\ UNCHANGED result

\* an exception that no try block of tagAndBuild encloses: the promise rejects
Reject ==
  /\ pc' = "done"
  /\ result' = "rejected"

(***************************************************************************)
(* The steps of tagAndBuild.                                               *)
(***************************************************************************)
\* NextAfterLookup without the test of line 29
NextAfterLookupUnchecked(appName) == "readManifest"

\* lines 28-32: if (!projectConfig) return { success: false }
NextAfterLookup(appName) ==
  IF appName \in Projects THEN "readManifest" ELSE "returnFalse"

\* lines 28-34: the project registry lookup
LookupProject ==
  /\ pc = "start"
  /\ calls' = Append(calls, "projects")
  /\ Goto(NextAfterLookup(options.appName))
  /\ UNCHANGED <<options, appVersion, majorMinorVersion, majorVersion,
                 dockerTags, gitSha, dockerCommand, manifest, tagListing,
                 buildResults, buildFinished, revision>>

\* lines 42-59: the version the manifest supplies; a read error is caught at
\* line 55 and leaves appVersion null, as does a falsy version
ManifestVersion(m) ==
  IF m.kind = "read" /\ Truthy(m.version) THEN m.version ELSE Null

\* NextAfterManifest with a catch block that returns failure
NextAfterManifestFatal(m) ==
  IF m.kind = "throws"
    THEN "returnFalse"
    ELSE IF Truthy(ManifestVersion(m)) THEN "runExecutor" ELSE "gitTag"

\* NextAfterManifest without the test of line 66
NextAfterManifestAlwaysTags(m) == "gitTag"

\* lines 55-66: after the manifest, whatever happened to the read, the test
\* of line 66 decides between the tag listing and the build
NextAfterManifest(m) ==
  IF Truthy(ManifestVersion(m)) THEN "runExecutor" ELSE "gitTag"

\* lines 40-66: readJsonFile, the version of the manifest, the test of line 66
ReadManifest ==
  /\ pc = "readManifest"
  /\ \E m \in ManifestOutcomes :
       /\ manifest' = m
       /\ IF Truthy(ManifestVersion(m))
            THEN /\ appVersion' = ManifestVersion(m)
                 /\ majorMinorVersion' = MajorMinorOf(ManifestVersion(m))
                 /\ majorVersion' = MajorOf(ManifestVersion(m))
            ELSE UNCHANGED <<appVersion, majorMinorVersion, majorVersion>>
       /\ Goto(NextAfterManifest(m))
  /\ calls' = Append(calls, "readJsonFile")
  /\ UNCHANGED <<options, dockerTags, gitSha, dockerCommand, tagListing,
                 buildResults, buildFinished, revision>>

\* NextAfterListingFailure with a catch block that only logs and a build
\* that follows
NextAfterListingFailureIgnored == "runExecutor"

\* lines 108-113: the catch block of the tag listing returns failure
NextAfterListingFailure == "returnFalse"

\* lines 68-71 and 108-113: `git tag --points-at HEAD` fails
GitTagFails ==
  /\ pc = "gitTag"
  /\ tagListing' = [kind |-> "throws"]
  /\ calls' = Append(calls, "git tag")
  /\ Goto(NextAfterListingFailure)
  /\ UNCHANGED <<options, appVersion, majorMinorVersion, majorVersion,
                 dockerTags, gitSha, dockerCommand, manifest, buildResults,
                 buildFinished, revision>>

\* lines 79-84: the version the listed tags supply, null if none
VersionFromTags(appName, tagPrefix, tags) ==
  IF FindRelevantTag(appName, tagPrefix, tags) = Null
    THEN Null
    ELSE VersionFromTag(appName, tagPrefix,
                        FindRelevantTag(appName, tagPrefix, tags))

\* NextAfterListing without the returns of lines 99 and 120
NextAfterListingUnchecked(version) == "runExecutor"

\* lines 92-102 and 116-121: without a version the executor returns failure
NextAfterListing(version) ==
  IF Truthy(version) THEN "runExecutor" ELSE "returnFalse"

\* lines 68-107 and 116-121: the listing is answered, the first matching tag
\* decides
GitTagAnswers ==
  /\ pc = "gitTag"
  /\ \E listing \in TagListings :
       LET tags == ParseTags(GitTagStdout(listing))
           version == VersionFromTags(options.appName, options.tagPrefix, tags)
       IN /\ tagListing' = [kind |-> "listed", tags |-> listing]
          /\ IF Truthy(version)
               THEN /\ appVersion' = version
                    /\ majorMinorVersion' = MajorMinorOf(version)
                    /\ majorVersion' = MajorOf(version)
               ELSE UNCHANGED <<appVersion, majorMinorVersion, majorVersion>>
          /\ Goto(NextAfterListing(version))
  /\ calls' = Append(calls, "git tag")
  /\ UNCHANGED <<options, dockerTags, gitSha, dockerCommand, manifest,
                 buildResults, buildFinished, revision>>

\* NextAfterRunExecutor with a build that is started and not waited for
NextAfterRunExecutorNotAwaited == "revParse"

\* lines 124-134: the awaited runExecutor is followed by the loop over the
\* results
NextAfterRunExecutor == "iterate"

\* lines 124-132: runExecutor answers with the iterator of the build results
RunBuildTarget ==
  /\ pc = "runExecutor"
  /\ calls' = Append(calls, "runExecutor")
  /\ pc' = NextAfterRunExecutor
  /\ UNCHANGED <<options, appVersion, majorMinorVersion, majorVersion,
                 dockerTags, gitSha, dockerCommand, result, manifest,
                 tagListing, buildResults, buildFinished, revision>>

\* lines 124-132: runExecutor rejects, outside every try block
RunBuildTargetThrows ==
  /\ pc = "runExecutor"
  /\ calls' = Append(calls, "runExecutor")
  /\ Reject
  /\ UNCHANGED <<options, appVersion, majorMinorVersion, majorVersion,
                 dockerTags, gitSha, dockerCommand, manifest, tagListing,
                 buildResults, buildFinished, revision>>

\* NextAfterResult without the return of line 141
NextAfterResultIgnored(success) == "iterate"

\* lines 135-142: a success continues the loop, anything else returns failure
NextAfterResult(success) ==
  IF success THEN "iterate" ELSE "returnFalse"

\* lines 134-143: the build reports one more result
BuildReports ==
  /\ pc = "iterate"
  /\ Len(buildResults) < MaxResults
  /\ \E success \in BOOLEAN :
       /\ buildResults' = Append(buildResults, success)
       /\ Goto(NextAfterResult(success))
  /\ UNCHANGED <<options, appVersion, majorMinorVersion, majorVersion,
                 dockerTags, gitSha, dockerCommand, calls, manifest,
                 tagListing, buildFinished, revision>>

\* line 134: the iterator of the build results throws, outside every try block
BuildIterationThrows ==
  /\ pc = "iterate"
  /\ Reject
  /\ UNCHANGED <<options, appVersion, majorMinorVersion, majorVersion,
                 dockerTags, gitSha, dockerCommand, calls, manifest,
                 tagListing, buildResults, buildFinished, revision>>

\* lines 134-166: the build has no more results; the tags up to the
\* additional ones are pushed and `git rev-parse HEAD` is awaited
BuildCompletes ==
  /\ pc = "iterate"
  /\ buildFinished' = TRUE
  /\ dockerTags' = TagsBeforeSha(options.dockerRepository, options.appName,
                                 appVersion, majorMinorVersion, majorVersion,
                                 options.generateMajorMinor,
                                 options.additionalTags)
  /\ pc' = "revParse"
  /\ UNCHANGED <<options, appVersion, majorMinorVersion, majorVersion, gitSha,
                 dockerCommand, result, calls, manifest, tagListing,
                 buildResults, revision>>

\* line 166: `git rev-parse HEAD` fails, outside every try block
RevParseFails ==
  /\ pc = "revParse"
  /\ revision' = [kind |-> "throws"]
  /\ calls' = Append(calls, "git rev-parse")
  /\ Reject
  /\ UNCHANGED <<options, appVersion, majorMinorVersion, majorVersion,
                 dockerTags, gitSha, dockerCommand, manifest, tagListing,
                 buildResults, buildFinished>>

\* lines 166-190: the identifier is answered, the SHA tag is pushed and the
\* docker command is composed
RevParseAnswers ==
  /\ pc = "revParse"
  /\ \E out \in RevisionOutputs :
       LET sha == ShortSha(out)
           tags == Append(dockerTags,
                          ShaTag(options.dockerRepository, options.appName, sha))
       IN /\ revision' = [kind |-> "answered", stdout |-> out]
          /\ gitSha' = sha
          /\ dockerTags' = tags
          /\ dockerCommand' =
               ComposeDockerCommand(
                 options.push, tags,
                 FinalDockerfile(WorkspaceRoot, options.dockerfile),
                 FinalContext(WorkspaceRoot, options.context),
                 appVersion, sha)
  /\ calls' = Append(calls, "git rev-parse")
  /\ pc' = "docker"
  /\ UNCHANGED <<options, appVersion, majorMinorVersion, majorVersion, result,
                 manifest, tagListing, buildResults, buildFinished>>

\* lines 191-203: the docker command is executed and succeeds or fails
DockerBuild ==
  /\ pc = "docker"
  /\ calls' = Append(calls, "docker buildx build")
  /\ \E ok \in BOOLEAN : Return(ok)
  /\ UNCHANGED <<options, appVersion, majorMinorVersion, majorVersion,
                 dockerTags, gitSha, dockerCommand, manifest, tagListing,
                 buildResults, buildFinished, revision>>

Next ==
  \/ LookupProject
  \/ ReadManifest
  \/ GitTagFails
  \/ GitTagAnswers
  \/ RunBuildTarget
  \/ RunBuildTargetThrows
  \/ BuildReports
  \/ BuildIterationThrows
  \/ BuildCompletes
  \/ RevParseFails
  \/ RevParseAnswers
  \/ DockerBuild

Spec == Init /\ [][Next]_vars

TypeOK ==
  /\ options \in OptionSets
  /\ pc \in {"start", "readManifest", "gitTag", "runExecutor", "iterate",
             "revParse", "docker", "done"}
  /\ result \in {"pending", "success", "failure", "rejected"}
  /\ (pc = "done") = (result # "pending")
  /\ buildFinished \in BOOLEAN

(***************************************************************************)
(* Vocabulary of the properties.                                           *)
(***************************************************************************)
Called(c) == \E i \in 1..Len(calls) : calls[i] = c

IsPrefix(p, s) == Len(p) <= Len(s) /\ SubSeq(s, 1, Len(p)) = p

\* the first dot-segment of V
FirstSegment(V) == Split(V, ".")[1]

\* the first two dot-segments of V joined by '.', all of V if it has one
FirstTwoSegments(V) ==
  IF Len(Split(V, ".")) >= 2
    THEN Split(V, ".")[1] \o <<".">> \o Split(V, ".")[2]
    ELSE Split(V, ".")[1]

ManifestAsked == manifest # NotAsked

ManifestGivesVersion ==
  ManifestAsked /\ manifest.kind = "read" /\ manifest.version \notin {Null, <<>>}

ManifestGivesNone == ManifestAsked /\ ~ManifestGivesVersion

TagsListed == tagListing # NotAsked /\ tagListing.kind = "listed"

\* the text <appName>/<tagPrefix>, the prefix being "v" when none is configured
LiteralHead ==
  options.appName \o <<"/">>
    \o (IF options.tagPrefix = Null THEN <<"v">> ELSE options.tagPrefix)

\* what follows <appName>/<tagPrefix> in a tag
RestOf(tag) == SubSeq(tag, Len(LiteralHead) + 1, Len(tag))

\* the positions of the listing whose tag reads <appName>/<tagPrefix><rest>
LiteralPositions ==
  {i \in 1..Len(tagListing.tags) : IsPrefix(LiteralHead, tagListing.tags[i])}

\* the positions of the listing whose tag the pattern of line 75 matches
MatchingPositions ==
  {i \in 1..Len(tagListing.tags) :
     PatternTest(options.appName, options.tagPrefix, tagListing.tags[i])}

FirstMatching ==
  LET matching == MatchingPositions
  IN tagListing.tags[CHOOSE i \in matching : \A j \in matching : i <= j]

\* what follows <appName>/<tagPrefix> in the first tag the pattern matches
FirstMatchingRest ==
  SubSeq(FirstMatching, Len(LiteralHead) + 1, Len(FirstMatching))

\* the revision identifier: the answer of `git rev-parse HEAD` without its
\* line feed
RevisionId == SelectSeq(revision.stdout, LAMBDA c : c # "\n")

\* <repository>/<appName>:<label>
Image(label) ==
  options.dockerRepository \o <<"/">> \o options.appName \o <<":">> \o label

(***************************************************************************)
(* C1.  For every non-empty manifest version V the resolved version is V,  *)
(* whatever tags point at HEAD, the major is the first dot-segment of V,   *)
(* major.minor is the first two dot-segments of V joined by '.', and       *)
(* major.minor is a prefix of V; also for one- and two-segment versions.   *)
(***************************************************************************)
C1_ManifestVersionDerivation ==
  ManifestGivesVersion =>
    /\ appVersion = manifest.version
    /\ majorVersion = FirstSegment(manifest.version)
    /\ majorMinorVersion = FirstTwoSegments(manifest.version)
    /\ IsPrefix(majorMinorVersion, appVersion)

(***************************************************************************)
(* C2.  When the manifest gives no version and exactly one listed tag      *)
(* reads <appName>/<tagPrefix><rest>, with a non-empty <rest>, the         *)
(* resolved version is <rest>, whatever the other tags of the listing.     *)
(***************************************************************************)
C2_SingleTagGivesVersion ==
  (/\ ManifestGivesNone
   /\ TagsListed
   /\ Cardinality(LiteralPositions) = 1
   /\ \A i \in LiteralPositions : RestOf(tagListing.tags[i]) # <<>>)
    => \A i \in LiteralPositions : appVersion = RestOf(tagListing.tags[i])

(***************************************************************************)
(* C3.  When the version comes from the listing, the first tag that the    *)
(* pattern matches decides alone: its <rest> is the version if non-empty,  *)
(* and if it is empty the executor fails, whatever matches later.          *)
(***************************************************************************)
C3_FirstMatchDecides ==
  (TagsListed /\ MatchingPositions # {}) =>
    LET rest == FirstMatchingRest
    IN IF rest # <<>>
      THEN /\ appVersion = rest
           /\ pc = "runExecutor" \/ Called("runExecutor")
      ELSE /\ result = "failure"
           /\ appVersion = Null
           /\ ~Called("runExecutor")

\* two tags match, the first with an empty <rest>, a later one with a version
C3_Witness ==
  /\ TagsListed
  /\ Cardinality(MatchingPositions) >= 2
  /\ FirstMatching = TagEmptyRest
  /\ \E i \in MatchingPositions : tagListing.tags[i] = TagFull
  /\ result = "failure"

(***************************************************************************)
(* C4.  If neither the manifest nor a revision tag yields a version, the   *)
(* executor returns success=false and produces no tags: no build target,   *)
(* no revision identifier query, no container build.                       *)
(***************************************************************************)
C4_NoVersionFails ==
  (ManifestGivesNone /\ TagsListed /\ appVersion \in {Null, <<>>}) =>
    /\ pc = "done"
    /\ result = "failure"
    /\ dockerTags = <<>>
    /\ dockerCommand = NotAsked
    /\ ~Called("runExecutor")
    /\ ~Called("git rev-parse")
    /\ ~Called("docker buildx build")

\* the manifest has no version and no listed tag matches the pattern
C4_Witness ==
  /\ ManifestGivesNone
  /\ TagsListed
  /\ tagListing.tags # <<>>
  /\ MatchingPositions = {}
  /\ result = "failure"

(***************************************************************************)
(* C5.  A failure to read the manifest is not fatal: it counts as an       *)
(* absent version, the tag listing is queried next, and when the first     *)
(* matching tag carries a version the run goes on to the build target and  *)
(* the container build with that version.                                  *)
(***************************************************************************)
C5_ReadFailureNotFatal ==
  (ManifestAsked /\ manifest.kind = "throws") =>
    /\ tagListing = NotAsked =>
         (pc = "gitTag" /\ result = "pending" /\ appVersion = Null)
    /\ Len(calls) >= 3 => calls[3] = "git tag"
    /\ (TagsListed /\ MatchingPositions # {}) =>
         LET rest == FirstMatchingRest
         IN rest # <<>> =>
              /\ appVersion = rest
              /\ pc = "runExecutor" \/ Called("runExecutor")
              /\ dockerCommand # NotAsked =>
                   /\ dockerCommand.appVersionArg = rest
                   /\ dockerCommand.tags[1] = Image(rest)
              /\ (/\ buildFinished
                  /\ revision # NotAsked
                  /\ revision.kind = "answered") =>
                   (pc = "docker" \/ Called("docker buildx build"))

\* the manifest could not be read and the image was built from a tag version
C5_Witness ==
  /\ ManifestAsked
  /\ manifest.kind = "throws"
  /\ TagsListed
  /\ Called("docker buildx build")
  /\ dockerCommand.appVersionArg = <<"1", ".", "2", ".", "3">>
  /\ result = "success"

(***************************************************************************)
(* C6.  When the manifest gives no version and listing the revision tags   *)
(* fails, the executor returns success=false and neither the build target  *)
(* nor the container build is invoked.                                     *)
(***************************************************************************)
C6_ListingFailureAborts ==
  (ManifestGivesNone /\ tagListing # NotAsked /\ tagListing.kind = "throws") =>
    /\ pc = "done"
    /\ result = "failure"
    /\ ~Called("runExecutor")
    /\ ~Called("git rev-parse")
    /\ ~Called("docker buildx build")

\* the tag listing failed after a manifest without a version
C6_Witness ==
  /\ ManifestGivesNone
  /\ manifest.kind = "read"
  /\ tagListing # NotAsked
  /\ tagListing.kind = "throws"
  /\ result = "failure"

(***************************************************************************)
(* C7.  The build target runs to completion before the container build;    *)
(* a non-success result makes the executor return success=false without    *)
(* the revision identifier query and without the container build, which    *)
(* is invoked only when every reported result was a success.               *)
(***************************************************************************)
C7_BuildBeforeContainer ==
  /\ (pc = "docker" \/ Called("docker buildx build")) =>
       /\ buildFinished
       /\ \A i \in 1..Len(buildResults) : buildResults[i]
       /\ \E i \in 1..Len(calls) :
            /\ calls[i] = "runExecutor"
            /\ \A j \in 1..Len(calls) : calls[j] = "docker buildx build" => i < j
  /\ (\E i \in 1..Len(buildResults) : ~buildResults[i]) =>
       /\ pc = "done"
       /\ result = "failure"
       /\ ~buildFinished
       /\ ~Called("git rev-parse")
       /\ ~Called("docker buildx build")
       /\ dockerCommand = NotAsked

\* the build reported a success and then a failure
C7_Witness ==
  /\ buildResults = <<TRUE, FALSE>>
  /\ result = "failure"
  /\ Called("runExecutor")

(***************************************************************************)
(* C8.  When appName is not a project of the registry, the executor        *)
(* returns success=false: no manifest read, no revision query, no build    *)
(* target, no container build.                                             *)
(***************************************************************************)
C8_UnknownProjectFails ==
  (options.appName \notin Projects /\ pc # "start") =>
    /\ pc = "done"
    /\ result = "failure"
    /\ calls = <<"projects">>
    /\ manifest = NotAsked
    /\ tagListing = NotAsked
    /\ revision = NotAsked
    /\ dockerCommand = NotAsked
    /\ buildResults = <<>>

\* the lookup of an unknown project has been made
C8_Witness ==
  /\ options.appName = AppUnknown
  /\ calls = <<"projects">>
  /\ result = "failure"

(***************************************************************************)
(* C9.  In every configuration the tag list starts with                    *)
(* <repository>/<appName>:<version> and ends with                          *)
(* <repository>/<appName>:sha-<first 7 characters of the revision id>.     *)
(***************************************************************************)
C9_VersionFirstShaLast ==
  dockerCommand # NotAsked =>
    /\ Len(dockerTags) >= 2
    /\ dockerCommand.tags = dockerTags
    /\ dockerTags[1] = Image(appVersion)
    /\ dockerTags[Len(dockerTags)] =
         Image(<<"s", "h", "a", "-">> \o SubSeq(RevisionId, 1, 7))

\* a list with major.minor, major and additional tags between the two
C9_Witness ==
  /\ dockerCommand # NotAsked
  /\ options.generateMajorMinor = "true"
  /\ options.additionalTags = <<Latest>>
  /\ Len(dockerTags) = 5
  /\ Len(RevisionId) > 7

(***************************************************************************)
(* C10.  With generateMajorMinor=true the tags between the version tag and *)
(* the additional tags are the major.minor tag, present iff major.minor    *)
(* differs from the version, then the major tag, present iff major differs *)
(* from the version and from major.minor; major and major.minor being the  *)
(* first and the first two dot-segments of the version.                    *)
(***************************************************************************)
C10_MajorMinorTagsExact ==
  (dockerCommand # NotAsked /\ options.generateMajorMinor = "true") =>
    LET major == FirstSegment(appVersion)
        majorMinor == FirstTwoSegments(appVersion)
        additional == IF options.additionalTags = NoList
                        THEN <<>> ELSE options.additionalTags
    IN dockerTags =
         <<Image(appVersion)>>
           \o (IF majorMinor # appVersion THEN <<Image(majorMinor)>> ELSE <<>>)
           \o (IF major # appVersion /\ major # majorMinor
                 THEN <<Image(major)>> ELSE <<>>)
           \o [i \in 1..Len(additional) |-> Image(additional[i])]
           \o <<Image(<<"s", "h", "a", "-">> \o SubSeq(RevisionId, 1, 7))>>

\* the additionalTags option as a list, empty when it is not configured
AdditionalList ==
  IF options.additionalTags = NoList THEN <<>> ELSE options.additionalTags

\* <repository>/<appName>:sha-<first 7 characters of the revision identifier>
ShaImage == Image(<<"s", "h", "a", "-">> \o SubSeq(RevisionId, 1, 7))

\* how many tags of the list come from the version: all but the additional
\* ones and the SHA tag
DerivedCount == Len(dockerTags) - 1 - Len(AdditionalList)

(***************************************************************************)
(* C11.  As stated: no tag occurs twice in the list passed to the          *)
(* container build.                                                        *)
(***************************************************************************)
C11_AllTagsDistinct ==
  dockerCommand # NotAsked =>
    \A i, j \in 1..Len(dockerCommand.tags) :
      dockerCommand.tags[i] = dockerCommand.tags[j] => i = j

(***************************************************************************)
(* C11, amended.  The tags derived from the version (version, major.minor, *)
(* major) are pairwise distinct; the additional tags and the SHA tag are   *)
(* appended without de-duplication.                                        *)
(***************************************************************************)
C11_DerivedTagsDistinct ==
  dockerCommand # NotAsked =>
    /\ DerivedCount >= 1
    /\ \A i, j \in 1..DerivedCount :
         dockerCommand.tags[i] = dockerCommand.tags[j] => i = j

\* a two-segment version, whose major.minor equals the version, with
\* generateMajorMinor
C11_Witness ==
  /\ dockerCommand # NotAsked
  /\ options.generateMajorMinor = "true"
  /\ appVersion = V12
  /\ majorMinorVersion = appVersion
  /\ DerivedCount = 2

(***************************************************************************)
(* C12.  With generateMajorMinor=true and a single-segment version such as *)
(* "5", neither a major.minor tag nor a major tag is appended: the list is *)
(* the version tag, the additional tags in order and the SHA tag.          *)
(***************************************************************************)
C12_SingleSegmentNoDerivedTags ==
  (/\ dockerCommand # NotAsked
   /\ options.generateMajorMinor = "true"
   /\ Len(Split(appVersion, ".")) = 1)
    => dockerTags =
         <<Image(appVersion)>>
           \o [i \in 1..Len(AdditionalList) |-> Image(AdditionalList[i])]
           \o <<ShaImage>>

(***************************************************************************)
(* C13.  Every entry of additionalTags yields exactly one tag              *)
(* <repository>/<appName>:<entry>, in the given order, after the tags      *)
(* derived from the version and before the SHA tag, also when it equals    *)
(* the version, major.minor, major, another entry or the SHA label.        *)
(***************************************************************************)
C13_AdditionalTagsUnconditional ==
  dockerCommand # NotAsked =>
    /\ DerivedCount \in 1..3
    /\ \A i \in 1..DerivedCount :
         dockerTags[i] \in {Image(appVersion), Image(majorMinorVersion),
                            Image(majorVersion)}
    /\ \A i \in 1..Len(AdditionalList) :
         dockerTags[DerivedCount + i] = Image(AdditionalList[i])
    /\ DerivedCount =
         1 + (IF options.generateMajorMinor = "true"
                   /\ majorMinorVersion # appVersion THEN 1 ELSE 0)
           + (IF options.generateMajorMinor = "true"
                   /\ majorVersion \notin {<<>>, appVersion, majorMinorVersion}
                THEN 1 ELSE 0)
    /\ dockerTags[Len(dockerTags)] = ShaImage

\* two additional entries equal to each other and to the major.minor label
C13_Witness ==
  /\ dockerCommand # NotAsked
  /\ options.generateMajorMinor = "true"
  /\ appVersion = V123
  /\ options.additionalTags = <<V12, V12>>
  /\ Len(dockerTags) = 6
  /\ dockerTags[2] = dockerTags[4]
  /\ dockerTags[4] = dockerTags[5]

(***************************************************************************)
(* C14.  When generateMajorMinor is false or not configured and            *)
(* additionalTags is absent or empty, the list has exactly two elements,   *)
(* the version tag and the SHA tag, whatever the version's segments.       *)
(***************************************************************************)
C14_TwoTagsByDefault ==
  (/\ dockerCommand # NotAsked
   /\ options.generateMajorMinor \in {"false", "undefined"}
   /\ options.additionalTags \in {NoList, <<>>})
    => dockerTags = <<Image(appVersion), ShaImage>>

\* manifest 1.2.3 and short id abc1234, nothing else configured
C14_Witness ==
  /\ dockerCommand # NotAsked
  /\ ManifestGivesVersion
  /\ manifest.version = V123
  /\ options.generateMajorMinor = "undefined"
  /\ options.additionalTags = NoList
  /\ dockerTags =
       <<<<"r", "e", "g", "/", "a", ".", "b", ":", "1", ".", "2", ".", "3">>,
         <<"r", "e", "g", "/", "a", ".", "b", ":", "s", "h", "a", "-",
           "a", "b", "c", "1", "2", "3", "4">>>>

(***************************************************************************)
(* C15.  The one container build carries a tag directive per element of    *)
(* the tag list, in order, APP_VERSION equal to the resolved version (the  *)
(* label of the first tag), BUILD_SHA equal to the 7-character short SHA   *)
(* (the label of the last tag without 'sha-'), and the push flag iff push  *)
(* is true.                                                                *)
(***************************************************************************)
C15_CommandCarriesTagsAndArgs ==
  (pc = "docker" \/ Called("docker buildx build")) =>
    /\ dockerCommand # NotAsked
    /\ dockerCommand.tags = dockerTags
    /\ dockerCommand.appVersionArg = appVersion
    /\ dockerCommand.tags[1] = Image(dockerCommand.appVersionArg)
    /\ dockerCommand.buildShaArg = SubSeq(RevisionId, 1, 7)
    /\ Len(dockerCommand.buildShaArg) = 7
    /\ dockerCommand.tags[Len(dockerCommand.tags)] =
         Image(<<"s", "h", "a", "-">> \o dockerCommand.buildShaArg)
    /\ dockerCommand.push = options.push
    /\ Cardinality({i \in 1..Len(calls) : calls[i] = "docker buildx build"}) <= 1

\* a build without the push flag and with four tags has been run
C15_Witness ==
  /\ Called("docker buildx build")
  /\ ~options.push
  /\ ~dockerCommand.push
  /\ Len(dockerCommand.tags) >= 4
  /\ result = "success"

(***************************************************************************)
(* C16.  Every invocation ends with a boolean success result: a failure of *)
(* the tag listing, the build-target invocation, the revision identifier   *)
(* query or the container build gives success=false, never an error that   *)
(* leaves the executor.                                                    *)
(***************************************************************************)
C16_FailuresReturnFalse ==
  pc = "done" => result \in {"success", "failure"}

\* the steps in the order of the source
StepOrder ==
  <<"projects", "readJsonFile", "git tag", "runExecutor", "git rev-parse",
    "docker buildx build">>

\* the position of a step in StepOrder
StepIndex(c) == CHOOSE i \in 1..Len(StepOrder) : StepOrder[i] = c

(***************************************************************************)
(* C17.  The steps are strictly ordered: version resolution ends before    *)
(* the build target starts, the build target ends before the revision      *)
(* identifier is queried and the tag list built, the container build       *)
(* starts after all of these, and no step starts after an earlier one      *)
(* failed.                                                                 *)
(***************************************************************************)
C17_StepsStrictlyOrdered ==
  /\ \A i, j \in 1..Len(calls) :
       i < j => StepIndex(calls[i]) < StepIndex(calls[j])
  /\ Called("runExecutor") =>
       /\ ManifestAsked
       /\ appVersion \notin {Null, <<>>}
       /\ ManifestGivesVersion \/ TagsListed
  /\ (Called("git rev-parse") \/ dockerTags # <<>>) =>
       /\ Called("runExecutor")
       /\ buildFinished
       /\ \A i \in 1..Len(buildResults) : buildResults[i]
  /\ Called("docker buildx build") =>
       /\ Called("git rev-parse")
       /\ revision.kind = "answered"
       /\ dockerCommand # NotAsked
  /\ (tagListing # NotAsked /\ tagListing.kind = "throws") =>
       calls[Len(calls)] = "git tag"
  /\ (revision # NotAsked /\ revision.kind = "throws") =>
       calls[Len(calls)] = "git rev-parse"
  /\ result \in {"failure", "rejected"} => pc = "done"

\* a run that went through every step, the tag listing included
C17_Witness ==
  /\ calls = StepOrder
  /\ result = "success"

(***************************************************************************)
(* C18.  The dockerfile and the build context given to the container build *)
(* are the configured dockerfile and context (defaults "Dockerfile" and    *)
(* ".") taken relative to the project's root directory.                    *)
(***************************************************************************)
C18_PathsRelativeToProjectRoot ==
  dockerCommand # NotAsked =>
    LET projectDir == WorkspaceRoot \o <<"/">> \o ProjectRoot(options.appName)
        file == IF options.dockerfile = Null
                  THEN <<"D", "o", "c", "k", "e", "r", "f", "i", "l", "e">>
                  ELSE options.dockerfile
    IN /\ dockerCommand.file = projectDir \o <<"/">> \o file
       /\ dockerCommand.context =
            IF options.context = Null
              THEN projectDir
              ELSE projectDir \o <<"/">> \o options.context

\* the commands run through exec, in order
ExternalCommands ==
  SelectSeq(calls, LAMBDA c : c \in {"git tag", "git rev-parse",
                                     "docker buildx build"})

(***************************************************************************)
(* C19.  When the manifest supplies a version the tag listing is never     *)
(* queried and a successful run executes exactly two external commands,    *)
(* the revision identifier query and then the container build, each once;  *)
(* no step is repeated within an invocation.                               *)
(***************************************************************************)
C19_NoListingNoRetry ==
  /\ ManifestGivesVersion =>
       /\ tagListing = NotAsked
       /\ ~Called("git tag")
       /\ result = "success" =>
            ExternalCommands = <<"git rev-parse", "docker buildx build">>
  /\ \A i, j \in 1..Len(calls) : calls[i] = calls[j] => i = j

\* a successful run from a manifest version
C19_Witness ==
  /\ ManifestGivesVersion
  /\ result = "success"
  /\ Len(calls) = 5

====
